---- MODULE Spec2Model ----
(***************************************************************************)
(* flac2ogg.py: conversion of audio files by chaining external decode and  *)
(* encode tools, optionally splitting by cue sheet, run over a process     *)
(* pool.  Text (file names, cue lines) is a sequence of one-character      *)
(* strings, so that splitext, lower(), startswith, split('"') and the      *)
(* regular expressions are computed and not assumed.                       *)
(***************************************************************************)
EXTENDS Integers, Sequences, FiniteSets, TLC

VARIABLES
    fs,        \* the filesystem: the set of paths at which a file exists
    fs0,       \* the filesystem as the run found it
    created,   \* the paths written by a tool during this run
    files,     \* Converter.files: the input list
    split,     \* Converter.split
    enc,       \* the encoder chosen on the command line: "ogg" or "mp3"
    cues,      \* the text of every cue file of the filesystem
    cpu,       \* the number of worker processes of mp.Pool()
    phase,     \* "prepare", "encode", "done" (exit 0) or "crashed" (traceback,
               \* exit 1); "exiting" while an exception leaves main with the
               \* pool still alive; "fn" in the runs of _get_output_fn alone;
               \* "args", "usage" (exit 1), "walked" in those of --recursive
    exc,       \* the exception that ended the run: "none", "parse" (IndexError in
               \* _parse_cue), "tool" (CalledProcessError in _split_file),
               \* "track" (IndexError in get_track_data), "job" (re-raised by get),
               \* "interrupt" (KeyboardInterrupt), "timeout" (TimeoutError of
               \* get), "exit1" (sys.exit(1))
    idx,       \* _prepare_files: index of the next file of the list
    jobs,      \* Converter._file_objs: the FileType objects, in order
    st,        \* per job, the state of its execution in a worker
    taskq,     \* the pool's task queue: chunks of job indexes, in order
    worker,    \* per worker process, the rest of the chunk it is running
    mapfail,   \* MapResult._success is False: some chunk raised
    fails,     \* number of external failures injected so far
    tools,     \* number of external tool invocations so far
    cuelog     \* per parsed cue sheet: the source's index and the cue file read

\* what the command line and the host fix for the whole run
conf == <<files, split, enc, cues, cpu, fs0>>

vars == <<fs, created, conf, phase, exc, idx, jobs, st, taskq, worker, mapfail,
          fails, tools, cuelog>>

(***************************************************************************)
(* Bounds of the model.                                                    *)
(***************************************************************************)
MaxFiles == 2      \* longest free input list
MaxCpu == 2        \* largest host core count
MaxPre == 1        \* most pre-existing outputs track<ext>, track_encoded_<ext>
MaxFail == 1       \* most external failures (tool exit, tag library error) per run
MaxFrag == 2       \* most fragments shnsplit writes for one source
MaxTracks == 2     \* most tracks of a cue sheet
MaxCalls == 2      \* most calls of _get_output_fn in a run of it alone
MaxLines == 4      \* most lines of a cue text parsed alone

(***************************************************************************)
(* Text.                                                                   *)
(***************************************************************************)
Lowers == <<"a","b","c","d","e","f","g","h","i","j","k","l","m",
            "n","o","p","q","r","s","t","u","v","w","x","y","z">>
Uppers == <<"A","B","C","D","E","F","G","H","I","J","K","L","M",
            "N","O","P","Q","R","S","T","U","V","W","X","Y","Z">>
Digits == <<"0","1","2","3","4","5","6","7","8","9">>

IndexIn(c, s) == IF \E i \in 1..Len(s) : s[i] = c
                 THEN CHOOSE i \in 1..Len(s) : s[i] = c
                 ELSE 0

LowerChar(c) == IF IndexIn(c, Uppers) > 0 THEN Lowers[IndexIn(c, Uppers)] ELSE c
UpperChar(c) == IF IndexIn(c, Lowers) > 0 THEN Uppers[IndexIn(c, Lowers)] ELSE c

\* str.lower(), str.upper()
Lower(s) == [i \in 1..Len(s) |-> LowerChar(s[i])]
Upper(s) == [i \in 1..Len(s) |-> UpperChar(s[i])]

IsDigit(c) == IndexIn(c, Digits) > 0

\* str.rfind of a single character, 1-based, 0 when absent
RFind(s, c) == IF \E i \in 1..Len(s) : s[i] = c
               THEN CHOOSE i \in 1..Len(s) : s[i] = c /\ \A k \in (i+1)..Len(s) : s[k] # c
               ELSE 0

\* str.find of a single character, 1-based, 0 when absent
Find(s, c) == IF \E i \in 1..Len(s) : s[i] = c
              THEN CHOOSE i \in 1..Len(s) : s[i] = c /\ \A k \in 1..(i-1) : s[k] # c
              ELSE 0

\* str.strip(): leading and trailing blanks removed
RECURSIVE Strip(_)
Strip(s) == IF s = <<>> THEN s
            ELSE IF Head(s) = " " THEN Strip(Tail(s))
            ELSE IF s[Len(s)] = " " THEN Strip(SubSeq(s, 1, Len(s) - 1))
            ELSE s

\* the characters in code point order, and the order of str comparison
Ascii == <<" ", "\"", ".", "/">> \o Digits \o Uppers \o <<"_">> \o Lowers

RECURSIVE StrLess(_, _)
StrLess(a, b) ==
    IF b = <<>> THEN FALSE
    ELSE IF a = <<>> THEN TRUE
    ELSE IF Head(a) = Head(b) THEN StrLess(Tail(a), Tail(b))
    ELSE IndexIn(Head(a), Ascii) < IndexIn(Head(b), Ascii)

\* sorted() of a set of strings
RECURSIVE Sorted(_)
Sorted(S) ==
    IF S = {} THEN <<>>
    ELSE LET m == CHOOSE x \in S : \A y \in S \ {x} : StrLess(x, y)
         IN  <<m>> \o Sorted(S \ {m})

\* str.startswith
StartsWith(s, p) == Len(p) <= Len(s) /\ SubSeq(s, 1, Len(p)) = p

\* `p in s` for strings
Contains(s, p) == \E i \in 0..(Len(s) - Len(p)) : SubSeq(s, i + 1, i + Len(p)) = p

sWavExt == <<".","w","a","v">>
sFlacExt == <<".","f","l","a","c">>
sWvExt == <<".","w","v">>
sApeExt == <<".","a","p","e">>
sM4aExt == <<".","m","4","a">>
sMp3Ext == <<".","m","p","3">>
sOggExt == <<".","o","g","g">>
sTxtExt == <<".","t","x","t">>
sCueExt == <<".","c","u","e">>
sEncoded == <<"_","e","n","c","o","d","e","d","_">>
sTrack == <<"t","r","a","c","k">>

(***************************************************************************)
(* Paths and the filesystem.                                               *)
(***************************************************************************)
\* os.path.splitext: the extension starts at the last dot of the last
\* component, unless only dots precede it there.
Splitext(p) ==
    LET sep == RFind(p, "/")
        dot == RFind(p, ".")
    IN  IF dot > sep /\ \E k \in (sep + 1)..(dot - 1) : p[k] # "."
        THEN <<SubSeq(p, 1, dot - 1), SubSeq(p, dot, Len(p))>>
        ELSE <<p, <<>>>>

\* os.path.exists: a file, or a directory holding one
Exists(p, fsys) ==
    \/ p \in fsys
    \/ \E q \in fsys : StartsWith(q, p \o <<"/">>)

\* os.path.dirname
Dirname(p) == SubSeq(p, 1, RFind(p, "/") - 1)

\* os.path.join(path, name)
Join(path, name) == IF path = <<>> THEN name ELSE path \o <<"/">> \o name

\* os.listdir(os.path.abspath(path)): the names of the entries of a directory
\* ("" is the current directory)
ListDir(path, fsys) ==
    LET pre == IF path = <<>> THEN <<>> ELSE path \o <<"/">>
        rest(p) == SubSeq(p, Len(pre) + 1, Len(p))
        first(r) == IF Find(r, "/") = 0 THEN r ELSE SubSeq(r, 1, Find(r, "/") - 1)
    IN  {first(rest(p)) : p \in {q \in fsys : StartsWith(q, pre) /\ Len(q) > Len(pre)}}

\* re.compile(r"^.*_\d+.wav$").match(name): an underscore, digits, any one
\* character, then "wav" at the end
FragmentRe(name) ==
    LET n == Len(name)
    IN  /\ n >= 6
        /\ SubSeq(name, n - 2, n) = <<"w","a","v">>
        /\ \E i \in 1..(n - 5) :
             /\ name[i] = "_"
             /\ \A k \in (i + 1)..(n - 4) : IsDigit(name[k])

\* match_file(path)
MatchFile(path, fsys) ==
    Sorted({Join(path, name) : name \in {x \in ListDir(path, fsys) : FragmentRe(x)}})

(***************************************************************************)
(* Encoders.                                                               *)
(***************************************************************************)
Encoders == {"ogg", "mp3"}

\* Encoder.ext
EncoderExt(e) == IF e = "ogg" THEN sOggExt ELSE sMp3Ext

(***************************************************************************)
(* FileType objects.  An optional string is <<>> (None) or <<s>>.          *)
(***************************************************************************)
None == <<>>
Some(s) == <<s>>

\* truth value of an optional string: None and "" are false
Truthy(o) == o # None /\ o[1] # <<>>

\* Converter.extract_map.get: the class for a lower-cased extension
ExtractMap(ext) ==
    CASE ext = sApeExt -> "ApeType"
      [] ext = sFlacExt -> "FlacType"
      [] ext = sM4aExt -> "M4aType"
      [] ext = sMp3Ext -> "Mp3Type"
      [] ext = sOggExt -> "OggType"
      [] ext = sWavExt -> "WavType"
      [] ext = sWvExt -> "WvType"
      [] OTHER -> "none"

\* FileType.__init__
FileType(filename, klass) ==
    [klass |-> klass,
     filename |-> filename,
     base |-> Splitext(filename)[1],
     ext |-> Lower(Splitext(filename)[2]),
     wav |-> Splitext(filename)[1] \o sWavExt,
     tmp_wav_remove |-> TRUE,
     album |-> None, album_artist |-> None, title |-> None, performer |-> None]

\* WavType.__init__
WavType(filename) ==
    [FileType(filename, "WavType") EXCEPT !.wav = filename, !.tmp_wav_remove = FALSE]

\* klass(filename, encoder)
Construct(filename, klass) ==
    IF klass = "WavType" THEN WavType(filename) ELSE FileType(filename, klass)

\* a slip: `if` for `while`, the suffix is appended once at most
OutputLoop_Once(out, ext, fsys) ==
    IF Exists(out \o ext, fsys) THEN out \o sEncoded \o ext ELSE out \o ext

\* FileType._get_output_fn: the loop over `out`
RECURSIVE OutputLoop(_, _, _)
OutputLoop(out, ext, fsys) ==
    IF Exists(out \o ext, fsys)
    THEN OutputLoop(out \o sEncoded, ext, fsys)
    ELSE out \o ext

GetOutputFn(job, e, fsys) == OutputLoop(job.base, EncoderExt(e), fsys)

(***************************************************************************)
(* The steps of FileType.encode, in program order.                         *)
(***************************************************************************)
\* a slip: the output name is chosen after the extraction
EncodeSteps_ExtractFirst == <<"extract", "choose", "encode", "tag", "cleanup">>

EncodeSteps == <<"choose", "extract", "encode", "tag", "cleanup">>

\* the state of a job before a worker has touched it
Fresh == [pc |-> 0, failed |-> "no", out |-> None, log |-> <<>>,
          overwrote |-> FALSE, saved |-> <<>>]

Terminal(s) == s.failed # "no" \/ s.pc = Len(EncodeSteps)

(***************************************************************************)
(* Tags: a map from field name to value, the metadata store of a file.     *)
(***************************************************************************)
NoTags == [k \in {} |-> <<>>]

\* dict.update: the fields of b overwrite those of a
TagUpdate(a, b) ==
    [k \in (DOMAIN a) \cup (DOMAIN b) |-> IF k \in DOMAIN b THEN b[k] ELSE a[k]]


\* the fields _tag_file writes from the job's own metadata record
Overrides(job) ==
    LET own == [album |-> job.album, albumartist |-> job.album_artist,
                artist |-> job.performer, title |-> job.title]
    IN  [k \in {f \in DOMAIN own : Truthy(own[f])} |-> own[k][1]]

\* the tags every audio file found at start carries
SrcTagMap == [album |-> <<"S","A">>, albumartist |-> <<"S","B">>,
              artist |-> <<"S","P">>, title |-> <<"S","T">>]

\* mutagen.File(self.filename): a file a tool of this run wrote carries no tags
SourceTags(path, made) == IF path \in made THEN NoTags ELSE SrcTagMap

\* the places of _tag_file where the tag library can raise
TagFaults == {"read", "open", "set", "save", "merge"}

\* FileType._tag_file.  fault names the statement that raises ("none": none).
\* Only out_tag.update(tag); out_tag.save() sits inside try/except.
\* `self.encoder == 'mp3'` compares an Encoder object with a string and is
\* never true, so _mp3_tag is never entered.
TagFile(job, src, fault) ==
    CASE fault \in {"read", "open", "set"} -> [raised |-> TRUE, saved |-> NoTags]
      [] fault = "save" -> [raised |-> TRUE, saved |-> NoTags]
      [] fault = "merge" -> [raised |-> FALSE, saved |-> Overrides(job)]
      [] OTHER -> [raised |-> FALSE, saved |-> TagUpdate(Overrides(job), src)]

\* a slip: cleanup without the tmp_wav_remove test
CleanupFs_Always(job, fsys) == fsys \ {job.wav}

\* FileType.cleanup: what is left of the filesystem
CleanupFs(job, fsys) == IF ~job.tmp_wav_remove THEN fsys ELSE fsys \ {job.wav}

(***************************************************************************)
(* CueObjectParser.  A cue file is its sequence of lines.                  *)
(***************************************************************************)
kREM == <<"R","E","M">>
kPERFORMER == <<"P","E","R","F","O","R","M","E","R">>
kTITLE == <<"T","I","T","L","E">>
kTRACK == <<"T","R","A","C","K">>

\* CueTrack.__init__
CueTrack == [performer |-> None, title |-> None]

\* CueObjectParser.__init__, before _parse_cue
CueInit == [in_track |-> FALSE, album_artist |-> None, album |-> None,
            tracks |-> <<>>, raised |-> FALSE]

\* line.split('"')[1]: the text after the first quote, up to the second one
\* or to the end of the line; IndexError when the line has no quote
SplitQuoteRaises(line) == Find(line, "\"") = 0
SplitQuote1(line) ==
    LET rest == SubSeq(line, Find(line, "\"") + 1, Len(line))
    IN  IF Find(rest, "\"") = 0 THEN rest ELSE SubSeq(rest, 1, Find(rest, "\"") - 1)

\* one iteration of the loop of _parse_cue
ParseLine(c, line) ==
    LET u == Upper(Strip(line))
        last == Len(c.tracks)
    IN  IF ~c.in_track /\ StartsWith(u, kREM) THEN c
        ELSE IF ~c.in_track /\ StartsWith(u, kPERFORMER)
        THEN IF SplitQuoteRaises(line) THEN [c EXCEPT !.raised = TRUE]
             ELSE [c EXCEPT !.album_artist = Some(SplitQuote1(line))]
        ELSE IF ~c.in_track /\ StartsWith(u, kTITLE)
        THEN IF SplitQuoteRaises(line) THEN [c EXCEPT !.raised = TRUE]
             ELSE [c EXCEPT !.album = Some(SplitQuote1(line))]
        ELSE IF Contains(u, kTRACK)
        THEN [c EXCEPT !.in_track = TRUE, !.tracks = Append(@, CueTrack)]
        ELSE IF c.in_track /\ StartsWith(u, kPERFORMER)
        THEN IF SplitQuoteRaises(line) THEN [c EXCEPT !.raised = TRUE]
             ELSE [c EXCEPT !.tracks[last].performer = Some(SplitQuote1(line))]
        ELSE IF c.in_track /\ StartsWith(u, kTITLE)
        THEN IF SplitQuoteRaises(line) THEN [c EXCEPT !.raised = TRUE]
             ELSE [c EXCEPT !.tracks[last].title = Some(SplitQuote1(line))]
        ELSE c

\* CueObjectParser._parse_cue: the loop stops at the first line that raises
RECURSIVE ParseLines(_, _)
ParseLines(c, lines) ==
    IF lines = <<>> \/ c.raised THEN c
    ELSE ParseLines(ParseLine(c, Head(lines)), Tail(lines))

ParseCue(lines) == ParseLines(CueInit, lines)

\* CueObjectParser.get_track_data(index), index 0-based: IndexError past the end
TrackDataRaises(cue, index) == index >= Len(cue.tracks)
GetTrackData(cue, index) == cue.tracks[index + 1]

(***************************************************************************)
(* Converter._split_file, the pure parts.                                  *)
(***************************************************************************)
\* the candidate cue names, in probing order
CueCandidates(base) ==
    <<base \o sCueExt, base \o sWavExt \o sCueExt, base \o sFlacExt \o sCueExt,
      base \o sWvExt \o sCueExt, base \o sApeExt \o sCueExt>>

\* a slip: the loop without its break, the last candidate that exists wins
FindCue_Last(base, fsys) ==
    LET cand == CueCandidates(base)
        hits == {i \in 1..Len(cand) : Exists(cand[i], fsys)}
    IN  IF hits = {} THEN None
        ELSE Some(cand[CHOOSE i \in hits : \A k \in hits : i >= k])

\* the loop over the candidates: the first that exists, or None
FindCue(base, fsys) ==
    LET cand == CueCandidates(base)
        hits == {i \in 1..Len(cand) : Exists(cand[i], fsys)}
    IN  IF hits = {} THEN None
        ELSE Some(cand[CHOOSE i \in hits : \A k \in hits : i <= k])

\* shnsplit -a base_ -o wav: the i-th fragment, numbered from 01
FragName(base, i) == base \o <<"_", "0", Digits[i + 1]>> \o sWavExt

\* the object built for one fragment in the loop over match_file(filepath)
FragmentJob(path, cue, index) ==
    [WavType(path) EXCEPT
        !.tmp_wav_remove = TRUE,
        !.album = cue.album,
        !.album_artist = cue.album_artist,
        !.title = GetTrackData(cue, index).title,
        !.performer = GetTrackData(cue, index).performer]

\* the objects appended before the loop ends or get_track_data raises
FragmentJobs(matched, cue) ==
    LET n == IF Len(matched) <= Len(cue.tracks) THEN Len(matched) ELSE Len(cue.tracks)
    IN  [i \in 1..n |-> FragmentJob(matched[i], cue, i - 1)]

(***************************************************************************)
(* The pool: map_async chops the job list into chunks.                     *)
(***************************************************************************)
\* Pool._map_async: divmod(len(iterable), len(self._pool) * 4)
ChunkFactor == 4

ChunkSize(n, c) ==
    IF n = 0 THEN 0
    ELSE (n \div (c * ChunkFactor)) + (IF n % (c * ChunkFactor) # 0 THEN 1 ELSE 0)

\* Pool._get_tasks: consecutive slices of `size` job indexes
RECURSIVE GetTasks(_, _, _)
GetTasks(from, n, size) ==
    IF from > n THEN <<>>
    ELSE LET to == IF from + size - 1 < n THEN from + size - 1 ELSE n
         IN  <<[i \in 1..(to - from + 1) |-> from + i - 1]>> \o GetTasks(to + 1, n, size)

(***************************************************************************)
(* Initial states.                                                         *)
(***************************************************************************)
BSeq(S, n) == UNION {[1..k -> S] : k \in 0..n}

Range(s) == {s[i] : i \in 1..Len(s)}

RECURSIVE Rep(_, _)
Rep(s, k) == IF k = 0 THEN <<>> ELSE s \o Rep(s, k - 1)

trackFlac == sTrack \o sFlacExt
trackWv == sTrack \o sWvExt
trackWav == sTrack \o sWavExt
trackTxt == sTrack \o sTxtExt
trackUpperWav == sTrack \o <<".","W","A","V">>

\* the i-th file of an album directory: s1.flac, s2.flac, ...
AlbumFile(i) == <<"s", Digits[i + 1]>> \o sFlacExt

DirectNames == {trackFlac, trackWv, trackWav, trackUpperWav, trackTxt}

\* an album of ChunkFactor + 1 files: the shortest list that a single-core
\* host's map_async chops into chunks of two jobs
AlbumList == [i \in 1..(ChunkFactor + 1) |-> AlbumFile(i)]

\* k pre-existing outputs: track<ext>, track_encoded_<ext>, ...
PreOutputs(e, k) == {sTrack \o Rep(sEncoded, i) \o EncoderExt(e) : i \in 0..(k - 1)}

\* cue sheets
QuotedLine(kw, v) == kw \o <<" ", "\"">> \o v \o <<"\"">>

TrackBlock(i) ==
    << <<" "," ">> \o kTRACK \o <<" ", "0", Digits[i + 1]>>,
       <<" "," "," "," ">> \o QuotedLine(kTITLE, <<"T", Digits[i + 1]>>),
       <<" "," "," "," ">> \o QuotedLine(kPERFORMER, <<"P", Digits[i + 1]>>) >>

RECURSIVE TrackBlocks(_, _)
TrackBlocks(i, n) == IF i > n THEN <<>> ELSE TrackBlock(i) \o TrackBlocks(i + 1, n)

\* a well-formed sheet of n tracks
GoodCue(album, n) ==
    << kREM \o <<" ">> \o kTRACK,
       QuotedLine(kPERFORMER, <<"A">>),
       QuotedLine(kTITLE, album) >> \o TrackBlocks(1, n)

\* a TITLE line without any quote, and one with a single quote
NoQuoteCue == << kTITLE \o <<" ", "L">> >> \o TrackBlocks(1, 1)
OneQuoteCue == << kTITLE \o <<" ", "\"", "L">> >> \o TrackBlocks(1, 1)

CueTexts == {GoodCue(<<"L">>, n) : n \in 1..MaxTracks} \cup {NoQuoteCue, OneQuoteCue}

trackCue == sTrack \o sCueExt
trackFlacCue == sTrack \o sFlacExt \o sCueExt

\* the cue files of the directory and their texts
CueSets ==
    {f \in UNION {[D -> CueTexts \cup {GoodCue(<<"M">>, MaxTracks)}] :
                    D \in SUBSET {trackCue, trackFlacCue}} :
        /\ trackCue \in DOMAIN f => f[trackCue] \in CueTexts
        /\ trackFlacCue \in DOMAIN f => f[trackFlacCue] = GoodCue(<<"M">>, MaxTracks)}

\* a source without any cue file beside it
loneFlac == <<"l","o","n","e">> \o sFlacExt

SplitNames == {trackFlac, trackWav, trackTxt, loneFlac}

\* a file left in the directory by an earlier run, named like a fragment
oldFragment == <<"o","l","d","_","0","1">> \o sWavExt

\* a source whose base name ends with an underscore and a number
discFlac == <<"c","d","_","1">> \o sFlacExt
discCue == <<"c","d","_","1">> \o sCueExt

\* a second album of the directory
sideFlac == <<"s","i","d","e">> \o sFlacExt
sideCue == <<"s","i","d","e">> \o sCueExt

InitRun ==
    /\ fs0 = fs
    /\ created = {}
    /\ phase = "prepare"
    /\ exc = "none"
    /\ idx = 1
    /\ jobs = <<>>
    /\ st = <<>>
    /\ taskq = <<>>
    /\ worker = [w \in 1..cpu |-> <<>>]
    /\ mapfail = FALSE
    /\ fails = 0
    /\ tools = 0
    /\ cuelog = <<>>

\* flac2ogg FILE...
InitDirect ==
    /\ split = FALSE
    /\ enc \in Encoders
    /\ \/ /\ cpu \in 1..MaxCpu /\ files \in BSeq(DirectNames, MaxFiles)
          /\ \E k \in 0..MaxPre : fs = Range(files) \cup PreOutputs(enc, k)
       \/ /\ cpu = 1 /\ files = AlbumList
          /\ \E k \in 0..MaxPre : fs = Range(files) \cup PreOutputs(enc, k)
       \/ \* one file of a directory that holds other files
          /\ cpu = 1 /\ files \in {<<f>> : f \in {trackFlac, trackWv}}
          /\ \E k \in 0..MaxPre : \E D \in SUBSET {trackWav, trackTxt} :
               fs = Range(files) \cup PreOutputs(enc, k) \cup D
    /\ cues = <<>>

\* flac2ogg -s FILE...
InitSplit ==
    /\ split = TRUE
    /\ enc \in Encoders
    /\ \/ /\ cpu \in 1..MaxCpu
          /\ files \in BSeq(SplitNames, MaxFiles)
          /\ cues \in CueSets
          /\ \E old \in SUBSET {oldFragment} :
               fs = Range(files) \cup DOMAIN cues \cup old
       \/ \* a disc image named by its number
          /\ cpu = 1
          /\ files = <<discFlac>>
          /\ cues = [c \in {discCue} |-> GoodCue(<<"L">>, MaxTracks)]
          /\ fs = Range(files) \cup DOMAIN cues
       \/ \* two albums side by side in one directory, each with its cue sheet
          /\ cpu = 1
          /\ files = <<trackFlac, sideFlac>>
          /\ cues = (trackCue :> GoodCue(<<"L">>, MaxTracks)) @@
                    (sideCue :> GoodCue(<<"M">>, MaxTracks))
          /\ fs = Range(files) \cup DOMAIN cues

Init == (InitDirect \/ InitSplit) /\ InitRun

(***************************************************************************)
(* Converter._prepare_files, one file of the list per step.                *)
(***************************************************************************)
PrepareDirect ==
    /\ phase = "prepare" /\ ~split /\ idx <= Len(files)
    /\ LET filename == files[idx]
           klass == ExtractMap(Lower(Splitext(filename)[2]))
       IN  IF klass = "none"
           THEN UNCHANGED <<jobs, st>>
           ELSE /\ jobs' = Append(jobs, Construct(filename, klass))
                /\ st' = Append(st, Fresh)
    /\ idx' = idx + 1
    /\ UNCHANGED <<fs, created, conf, cuelog, phase, exc, taskq,
                   worker, mapfail, fails, tools>>

(***************************************************************************)
(* Converter._split_file for files[idx], by the way it ends.               *)
(***************************************************************************)
SplitGuard == phase = "prepare" /\ split /\ idx <= Len(files)
SBase == Splitext(files[idx])[1]
SKlass == ExtractMap(Lower(Splitext(files[idx])[2]))
SWav == SBase \o sWavExt
SCue == FindCue(SBase, fs)

\* no cue file: print and return
SplitNoCue ==
    /\ SplitGuard /\ SCue = None
    /\ idx' = idx + 1
    /\ UNCHANGED <<fs, created, conf, cuelog, phase, exc, jobs, st, taskq, worker,
                   mapfail, fails, tools>>

\* CueObjectParser(cuefile) raises IndexError: nothing catches it
SplitParseError ==
    /\ SplitGuard /\ SCue # None
    /\ ParseCue(cues[SCue[1]]).raised
    /\ cuelog' = Append(cuelog, [file |-> idx, cue |-> SCue[1]])
    /\ phase' = "crashed"
    /\ exc' = "parse"
    /\ UNCHANGED <<fs, created, conf, idx, jobs, st, taskq, worker, mapfail,
                   fails, tools>>

\* no class for the extension: print and return
SplitNoConverter ==
    /\ SplitGuard /\ SCue # None
    /\ ~ParseCue(cues[SCue[1]]).raised
    /\ SKlass = "none"
    /\ cuelog' = Append(cuelog, [file |-> idx, cue |-> SCue[1]])
    /\ idx' = idx + 1
    /\ UNCHANGED <<fs, created, conf, phase, exc, jobs, st, taskq, worker, mapfail,
                   fails, tools>>

\* fobj.extract_wav() or shnsplit exits non-zero: check_call raises
SplitToolFail ==
    /\ SplitGuard /\ SCue # None
    /\ ~ParseCue(cues[SCue[1]]).raised
    /\ SKlass # "none"
    /\ cuelog' = Append(cuelog, [file |-> idx, cue |-> SCue[1]])
    /\ \/ \* the decoder fails
          /\ SKlass # "WavType" /\ fails < MaxFail
          /\ fails' = fails + 1
          /\ tools' = tools + 1
          /\ UNCHANGED <<fs, created>>
       \/ \* shnsplit fails: always when its input is missing
          /\ LET fobj == Construct(files[idx], SKlass)
                 fs1 == IF SKlass = "WavType" THEN fs ELSE fs \cup {fobj.wav}
             IN  /\ \/ SWav \notin fs1 /\ UNCHANGED fails
                    \/ SWav \in fs1 /\ fails < MaxFail /\ fails' = fails + 1
                 /\ fs' = fs1
                 /\ created' = IF SKlass = "WavType" THEN created
                               ELSE created \cup {fobj.wav}
                 /\ tools' = tools + (IF SKlass = "WavType" THEN 2 ELSE 3)
    /\ phase' = "crashed"
    /\ exc' = "tool"
    /\ UNCHANGED <<conf, idx, jobs, st, taskq, worker, mapfail>>

\* the tools succeed and shnsplit writes n fragments; the loop over
\* match_file(filepath) appends the objects, then fobj.cleanup()
SplitDone ==
    /\ SplitGuard /\ SCue # None
    /\ ~ParseCue(cues[SCue[1]]).raised
    /\ SKlass # "none"
    /\ \E n \in 1..MaxFrag :
         LET cue == ParseCue(cues[SCue[1]])
             fobj == Construct(files[idx], SKlass)
             fs1 == IF SKlass = "WavType" THEN fs ELSE fs \cup {fobj.wav}
             frags == {FragName(SBase, i) : i \in 1..n}
             fs2 == fs1 \cup frags
             matched == MatchFile(Dirname(files[idx]), fs2)
             new == FragmentJobs(matched, cue)
         IN  /\ SWav \in fs1
             /\ created' = created \cup frags \cup
                             (IF SKlass = "WavType" THEN {} ELSE {fobj.wav})
             /\ tools' = tools + (IF SKlass = "WavType" THEN 2 ELSE 3)
             /\ jobs' = jobs \o new
             /\ st' = st \o [i \in 1..Len(new) |-> Fresh]
             /\ IF \E i \in 1..Len(matched) : TrackDataRaises(cue, i - 1)
                THEN /\ phase' = "crashed"
                     /\ exc' = "track"
                     /\ fs' = fs2
                     /\ UNCHANGED idx
                ELSE /\ fs' = CleanupFs(fobj, fs2)
                     /\ idx' = idx + 1
                     /\ UNCHANGED <<phase, exc>>
    /\ cuelog' = Append(cuelog, [file |-> idx, cue |-> SCue[1]])
    /\ UNCHANGED <<conf, taskq, worker, mapfail, fails>>

(***************************************************************************)
(* Converter._encode: pool.map_async(encode, jobs).get(999)                *)
(***************************************************************************)
StartPool ==
    /\ phase = "prepare" /\ idx > Len(files)
    /\ phase' = "encode"
    /\ UNCHANGED exc
    /\ taskq' = GetTasks(1, Len(jobs), ChunkSize(Len(jobs), cpu))
    /\ UNCHANGED <<fs, created, conf, cuelog, idx, jobs, st,
                   worker, mapfail, fails, tools>>

\* an idle worker process takes the next chunk (the processes are alike: the
\* idle one of least index stands for whichever gets it)
TakeTask(w) ==
    /\ phase = "encode" /\ worker[w] = <<>> /\ taskq # <<>>
    /\ \A v \in 1..(w - 1) : worker[v] # <<>>
    /\ worker' = [worker EXCEPT ![w] = Head(taskq)]
    /\ taskq' = Tail(taskq)
    /\ UNCHANGED <<fs, created, conf, cuelog, phase, exc, idx, jobs,
                   st, mapfail, fails, tools>>

\* the job a worker is running, and the step of encode() it is about to run
Running(w) == phase \in {"encode", "exiting"} /\ worker[w] # <<>>
Cur(w) == Head(worker[w])
StepOf(j) == IF Terminal(st[j]) THEN "none" ELSE EncodeSteps[st[j].pc + 1]

\* a step of job j returned: mapstar goes on to the next job of the chunk
\* once encode() has returned
Returned(w, j, s) ==
    /\ st' = [st EXCEPT ![j] = s]
    /\ worker' = [worker EXCEPT ![w] = IF s.pc = Len(EncodeSteps) THEN Tail(@) ELSE @]
    /\ UNCHANGED mapfail

\* a step of job j raised: the exception leaves mapstar, the rest of the
\* chunk is not run and the map result records the failure
Raised(w, j, s, step) ==
    /\ st' = [st EXCEPT ![j] = [s EXCEPT !.failed = step]]
    /\ worker' = [worker EXCEPT ![w] = <<>>]
    /\ mapfail' = TRUE

Did(s, step) == [s EXCEPT !.pc = @ + 1, !.log = Append(@, step)]

\* self.out_fname = self._get_output_fn()
Choose(w) ==
    /\ Running(w) /\ StepOf(Cur(w)) = "choose"
    /\ LET j == Cur(w)
       IN  Returned(w, j, [Did(st[j], "choose") EXCEPT
                              !.out = Some(GetOutputFn(jobs[j], enc, fs))])
    /\ UNCHANGED <<fs, created, conf, cuelog, phase, exc, idx, jobs,
                   taskq, fails, tools>>

\* self.extract_wav(): WavType does nothing, the others run a decoder
ExtractNoop(w) ==
    /\ Running(w) /\ StepOf(Cur(w)) = "extract"
    /\ jobs[Cur(w)].klass = "WavType"
    /\ Returned(w, Cur(w), Did(st[Cur(w)], "extract"))
    /\ UNCHANGED <<fs, created, conf, cuelog, phase, exc, idx, jobs,
                   taskq, fails, tools>>

ExtractOk(w) ==
    /\ Running(w) /\ StepOf(Cur(w)) = "extract"
    /\ jobs[Cur(w)].klass # "WavType"
    /\ fs' = fs \cup {jobs[Cur(w)].wav}
    /\ created' = created \cup {jobs[Cur(w)].wav}
    /\ tools' = tools + 1
    /\ Returned(w, Cur(w), Did(st[Cur(w)], "extract"))
    /\ UNCHANGED <<conf, cuelog, phase, exc, idx, jobs, taskq, fails>>

\* check_call raises on a non-zero exit
ExtractFail(w) ==
    /\ Running(w) /\ StepOf(Cur(w)) = "extract"
    /\ jobs[Cur(w)].klass # "WavType"
    /\ fails < MaxFail
    /\ fails' = fails + 1
    /\ tools' = tools + 1
    /\ UNCHANGED <<fs, created>>
    /\ Raised(w, Cur(w), Did(st[Cur(w)], "extract"), "extract")
    /\ UNCHANGED <<conf, cuelog, phase, exc, idx, jobs, taskq>>

\* self.encoder.encode(self.wav, self.out_fname)
EncodeOk(w) ==
    /\ Running(w) /\ StepOf(Cur(w)) = "encode"
    /\ jobs[Cur(w)].wav \in fs
    /\ LET j == Cur(w)
           out == st[j].out[1]
       IN  /\ fs' = fs \cup {out}
           /\ created' = created \cup {out}
           /\ Returned(w, j, [Did(st[j], "encode") EXCEPT !.overwrote = out \in fs])
    /\ tools' = tools + 1
    /\ UNCHANGED <<conf, cuelog, phase, exc, idx, jobs, taskq, fails>>

\* the encoder exits non-zero: always when its input is missing
EncodeFail(w) ==
    /\ Running(w) /\ StepOf(Cur(w)) = "encode"
    /\ LET j == Cur(w)
           out == st[j].out[1]
       IN  \/ /\ jobs[j].wav \notin fs
              /\ UNCHANGED <<fs, created, fails>>
              /\ Raised(w, j, Did(st[j], "encode"), "encode")
           \/ /\ jobs[j].wav \in fs
              /\ fails < MaxFail
              /\ fails' = fails + 1
              /\ UNCHANGED <<fs, created>>
              /\ Raised(w, j, Did(st[j], "encode"), "encode")
    /\ tools' = tools + 1
    /\ UNCHANGED <<conf, cuelog, phase, exc, idx, jobs, taskq>>

\* self._tag_file()
Tag(w) ==
    /\ Running(w) /\ StepOf(Cur(w)) = "tag"
    /\ LET j == Cur(w)
           src == SourceTags(jobs[j].filename, created)
       IN  \E fault \in {"none"} \cup (IF fails < MaxFail THEN TagFaults ELSE {}) :
             /\ fault = "set" => Overrides(jobs[j]) # NoTags
             /\ fails' = IF fault = "none" THEN fails ELSE fails + 1
             /\ LET r == TagFile(jobs[j], src, fault)
                    s == [Did(st[j], "tag") EXCEPT !.saved = r.saved]
                IN  IF r.raised THEN Raised(w, j, s, "tag") ELSE Returned(w, j, s)
    /\ UNCHANGED <<fs, created, conf, cuelog, phase, exc, idx, jobs,
                   taskq, tools>>

\* self.cleanup(): os.unlink raises when the file is gone
Cleanup(w) ==
    /\ Running(w) /\ StepOf(Cur(w)) = "cleanup"
    /\ LET j == Cur(w)
       IN  IF jobs[j].tmp_wav_remove /\ jobs[j].wav \notin fs
           THEN /\ Raised(w, j, Did(st[j], "cleanup"), "cleanup")
                /\ UNCHANGED fs
           ELSE /\ Returned(w, j, Did(st[j], "cleanup"))
                /\ fs' = CleanupFs(jobs[j], fs)
    /\ UNCHANGED <<created, conf, cuelog, phase, exc, idx, jobs,
                   taskq, fails, tools>>

\* .get(999) returns, or re-raises the first exception, once every chunk is done
PoolDone ==
    /\ phase = "encode" /\ taskq = <<>> /\ \A w \in 1..cpu : worker[w] = <<>>
    /\ phase' = IF mapfail THEN "crashed" ELSE "done"
    /\ exc' = IF mapfail THEN "job" ELSE "none"
    /\ UNCHANGED <<fs, created, conf, cuelog, idx, jobs, st,
                   taskq, worker, mapfail, fails, tools>>

\* the runs in which the wait on the pool is not cut short
Next ==
    \/ PrepareDirect
    \/ SplitNoCue
    \/ SplitParseError
    \/ SplitNoConverter
    \/ SplitToolFail
    \/ SplitDone
    \/ StartPool
    \/ \E w \in 1..cpu : TakeTask(w)
    \/ \E w \in 1..cpu : Choose(w)
    \/ \E w \in 1..cpu : ExtractNoop(w)
    \/ \E w \in 1..cpu : ExtractOk(w)
    \/ \E w \in 1..cpu : ExtractFail(w)
    \/ \E w \in 1..cpu : EncodeOk(w)
    \/ \E w \in 1..cpu : EncodeFail(w)
    \/ \E w \in 1..cpu : Tag(w)
    \/ \E w \in 1..cpu : Cleanup(w)
    \/ PoolDone

Spec == Init /\ [][Next]_vars

(***************************************************************************)
(* The wait of Converter._encode, .get(999), cut short.  How long a tool   *)
(* runs is not the program's to decide: the 999 seconds can be over, and   *)
(* the user can press ctrl+c, in any state of the pool.  The exception     *)
(* leaves main; the worker processes go on until the interpreter's exit    *)
(* runs the pool's finalizer, which terminates them.                       *)
(***************************************************************************)
\* MapResult.ready(): every chunk has reported
Ready == taskq = <<>> /\ \A w \in 1..cpu : worker[w] = <<>>

\* KeyboardInterrupt raised in .get(999)
Interrupt ==
    /\ phase = "encode"
    /\ phase' = "exiting"
    /\ exc' = "interrupt"
    /\ UNCHANGED <<fs, created, conf, cuelog, idx, jobs, st,
                   taskq, worker, mapfail, fails, tools>>

\* .get(999): the wait is over and the result is not ready, TimeoutError
WaitTimeout ==
    /\ phase = "encode" /\ ~Ready
    /\ phase' = "exiting"
    /\ exc' = "timeout"
    /\ UNCHANGED <<fs, created, conf, cuelog, idx, jobs, st,
                   taskq, worker, mapfail, fails, tools>>

\* interpreter exit: Pool._terminate_pool drops the queued tasks and calls
\* terminate() on every worker process
ExitTerminate ==
    /\ phase = "exiting"
    /\ phase' = "crashed"
    /\ taskq' = <<>>
    /\ worker' = [w \in 1..cpu |-> <<>>]
    /\ UNCHANGED <<fs, created, conf, cuelog, exc, idx, jobs, st,
                   mapfail, fails, tools>>

NextWait == Next \/ Interrupt \/ WaitTimeout \/ ExitTerminate

SpecWait == Init /\ [][NextWait]_vars

\* the same program on a single-core host: the pool runs the chunks in turn
InitOneCore == Init /\ cpu = 1

SpecOneCore == InitOneCore /\ [][Next]_vars


(***************************************************************************)
(* FileType._get_output_fn alone: it is called on an arbitrary directory,  *)
(* the path it returned is created, and it is called again.  st[1].out is  *)
(* the path returned and not yet created, st[1].log the paths created.     *)
(***************************************************************************)
\* no path is both a file and a directory
FsConsistent(F) == \A p \in F : \A q \in F : ~StartsWith(q, p \o <<"/">>)

\* outputs found in the directory, one of them possibly a directory
FnPaths(e) ==
    PreOutputs(e, MaxPre + 1) \cup {sTrack \o sEncoded \o EncoderExt(e) \o <<"/", "x">>}

InitFn ==
    /\ split = FALSE
    /\ enc \in Encoders
    /\ cpu = 1
    /\ files \in {<<f>> : f \in {trackFlac, trackWv, trackWav}}
    /\ cues = <<>>
    /\ \E P \in SUBSET FnPaths(enc) : FsConsistent(P) /\ fs = Range(files) \cup P
    /\ fs0 = fs
    /\ created = {}
    /\ phase = "fn"
    /\ exc = "none"
    /\ idx = 1
    /\ jobs = <<Construct(files[1], ExtractMap(Lower(Splitext(files[1])[2])))>>
    /\ st = <<Fresh>>
    /\ taskq = <<>>
    /\ worker = [w \in 1..cpu |-> <<>>]
    /\ mapfail = FALSE
    /\ fails = 0
    /\ tools = 0
    /\ cuelog = <<>>

CallFn ==
    /\ phase = "fn" /\ Len(st[1].log) < MaxCalls
    /\ st' = [st EXCEPT ![1].out = Some(GetOutputFn(jobs[1], enc, fs))]
    /\ UNCHANGED <<fs, created, conf, cuelog, phase, exc, idx, jobs, taskq,
                   worker, mapfail, fails, tools>>

CreateFn ==
    /\ phase = "fn" /\ st[1].out # None
    /\ fs' = fs \cup {st[1].out[1]}
    /\ created' = created \cup {st[1].out[1]}
    /\ st' = [st EXCEPT ![1].out = None, ![1].log = Append(@, st[1].out[1])]
    /\ UNCHANGED <<conf, cuelog, phase, exc, idx, jobs, taskq, worker, mapfail,
                   fails, tools>>

NextFn == CallFn \/ CreateFn

SpecFn == InitFn /\ [][NextFn]_vars


(***************************************************************************)
(* main with --recursive: get_filepaths_recursively.  `files` is args.files *)
(* and, once the walk is over, the list handed to Converter.                *)
(***************************************************************************)
\* one character of a regular expression against one of the text
ReChar(p, c) == p = "." \/ p = c

\* re.match(pat, name) for patterns made of characters, "." and a postfix
\* "*": anchored at the start of the name, not at its end
RECURSIVE ReMatch(_, _)
ReMatch(pat, name) ==
    IF pat = <<>> THEN TRUE
    ELSE IF Len(pat) >= 2 /\ pat[2] = "*"
    THEN \/ ReMatch(SubSeq(pat, 3, Len(pat)), name)
         \/ /\ name # <<>> /\ ReChar(pat[1], name[1])
            /\ ReMatch(pat, Tail(name))
    ELSE /\ name # <<>> /\ ReChar(pat[1], name[1])
         /\ ReMatch(Tail(pat), Tail(name))

\* the test of line 61: one pattern, and it starts with "*"
PatternAccepted(pattern) ==
    /\ pattern # <<>>
    /\ Len(pattern) = 1
    /\ StartsWith(pattern[1], <<"*">>)

\* pat = "." + pattern[0]
WalkPat(pattern) == <<".">> \o pattern[1]

\* os.path.basename
Basename(p) == SubSeq(p, RFind(p, "/") + 1, Len(p))

\* os.walk("."): the (root, filename) pairs of the files of the tree
WalkRoot(p) == IF Dirname(p) = <<>> THEN <<".">> ELSE <<".", "/">> \o Dirname(p)
WalkEntries(fsys) == {<<WalkRoot(p), Basename(p)>> : p \in fsys}

\* the paths appended to files_
WalkMatches(pattern, fsys) ==
    {Join(e[1], e[2]) : e \in {x \in WalkEntries(fsys) : ReMatch(WalkPat(pattern), x[2])}}

\* the command line patterns and the files of the tree
sStar == <<"*">>
RecPatterns == {sStar \o sFlacExt, sStar \o sMp3Ext, sStar \o <<"f","l","a","c">>,
                sStar, <<"a">> \o sFlacExt}
RecTree == {<<"a">> \o sFlacExt, <<"s","u","b","/","b">> \o sFlacExt,
            <<"c">> \o sMp3Ext, <<"a">> \o sFlacExt \o <<"x">>,
            <<"m","y","f","l","a","c">>}

InitRec ==
    /\ split = FALSE
    /\ enc \in Encoders
    /\ cpu = 1
    /\ \E k \in 1..MaxFiles : files \in [1..k -> RecPatterns]
    /\ cues = <<>>
    /\ fs \in SUBSET RecTree
    /\ fs0 = fs
    /\ created = {}
    /\ phase = "args"
    /\ exc = "none"
    /\ idx = 1
    /\ jobs = <<>>
    /\ st = <<>>
    /\ taskq = <<>>
    /\ worker = [w \in 1..cpu |-> <<>>]
    /\ mapfail = FALSE
    /\ fails = 0
    /\ tools = 0
    /\ cuelog = <<>>

\* print the message and sys.exit(1)
UsageExit ==
    /\ phase = "args" /\ ~PatternAccepted(files)
    /\ phase' = "usage"
    /\ exc' = "exit1"
    /\ UNCHANGED <<fs, created, conf, idx, jobs, st, taskq, worker, mapfail,
                   fails, tools, cuelog>>

\* the walk: the order of os.walk and of the names in a directory is the
\* filesystem's, any order of the matches can be returned
Walk ==
    /\ phase = "args" /\ PatternAccepted(files)
    /\ LET M == WalkMatches(files, fs)
       IN  \E q \in [1..Cardinality(M) -> M] :
             /\ \A i \in DOMAIN q : \A k \in DOMAIN q : q[i] = q[k] => i = k
             /\ files' = q
    /\ phase' = "walked"
    /\ UNCHANGED <<fs, fs0, created, split, enc, cues, cpu, exc, idx, jobs, st,
                   taskq, worker, mapfail, fails, tools, cuelog>>

NextRec == UsageExit \/ Walk

SpecRec == InitRec /\ [][NextRec]_vars


(***************************************************************************)
(* CueObjectParser alone: a cue file of a few lines is parsed.  cues holds *)
(* the text of the one cue file, cuelog the parser object once built.      *)
(***************************************************************************)
\* the lines a cue text is made of: album and track directives, and a track
\* title that holds the word "Track"
CueLines ==
    {QuotedLine(kPERFORMER, <<"A">>),
     QuotedLine(kTITLE, <<"L">>),
     <<" "," ">> \o kTRACK \o <<" ","0","1">>,
     <<" "," "," "," ">> \o QuotedLine(kTITLE, <<"T","1">>),
     <<" "," "," "," ">> \o QuotedLine(kPERFORMER, <<"P","1">>),
     <<" "," "," "," ">> \o QuotedLine(kTITLE, <<"T","r","a","c","k">>)}

InitCue ==
    /\ split = TRUE
    /\ enc \in Encoders
    /\ cpu = 1
    /\ files = <<trackWav>>
    /\ \E text \in BSeq(CueLines, MaxLines) : cues = [c \in {trackCue} |-> text]
    /\ fs = {trackWav, trackCue}
    /\ fs0 = fs
    /\ created = {}
    /\ phase = "cue"
    /\ exc = "none"
    /\ idx = 1
    /\ jobs = <<>>
    /\ st = <<>>
    /\ taskq = <<>>
    /\ worker = [w \in 1..cpu |-> <<>>]
    /\ mapfail = FALSE
    /\ fails = 0
    /\ tools = 0
    /\ cuelog = <<>>

\* cue = CueObjectParser(cuefile)
CueParse ==
    /\ phase = "cue"
    /\ cuelog' = <<ParseCue(cues[trackCue])>>
    /\ phase' = "parsed"
    /\ UNCHANGED <<fs, created, conf, exc, idx, jobs, st, taskq, worker, mapfail,
                   fails, tools>>

NextCue == CueParse

SpecCue == InitCue /\ [][NextCue]_vars


(***************************************************************************)
(* Properties.                                                             *)
(***************************************************************************)
JobIds == 1..Len(jobs)

IsPrefix(a, b) == Len(a) <= Len(b) /\ SubSeq(b, 1, Len(a)) = a

\* spec §4.4: the terminal states CleanedUp and Failed
CleanedUp(j) == st[j].failed = "no" /\ st[j].pc = Len(EncodeSteps)
Failed(j) == st[j].failed # "no"

\* C1: no two jobs of a run choose the same output path, and no job's encode
\* step writes to a path at which a file already exists.
C1_OutputsNeverCollide ==
    /\ \A i \in JobIds : \A j \in JobIds :
         (i # j /\ st[i].out # None /\ st[j].out # None) => st[i].out # st[j].out
    /\ \A j \in JobIds : ~st[j].overwrote

\* C2: once a job's tagging has completed, every field that both its own
\* metadata record and its source file's tags provide holds, in the output
\* file, the job's own value.
C2_OwnFieldsWin ==
    \A j \in JobIds :
      (st[j].failed # "tag" /\ \E i \in 1..Len(st[j].log) : st[j].log[i] = "tag") =>
        \A k \in (DOMAIN Overrides(jobs[j]))
                   \cap (DOMAIN SourceTags(jobs[j].filename, created)) :
           st[j].saved[k] = Overrides(jobs[j])[k]

\* C3: when the map has ended with a job failed at extract or encode, every
\* job of the list has been started and has reached CleanedUp or Failed.
C3_FailureIsolated ==
    (phase = "crashed" /\ exc = "job"
       /\ \E j \in JobIds : st[j].failed \in {"extract", "encode"})
    => \A j \in JobIds : CleanedUp(j) \/ Failed(j)

\* C4: no job fails in its tag step: whatever the tag library raises there is
\* absorbed and the job goes on to cleanup.
C4_TaggingAbsorbed == \A j \in JobIds : st[j].failed # "tag"

\* C5 as stated: the steps a job has run are a prefix of extract, choose
\* output path, encode, tag, cleanup.
C5_ExtractBeforeChoose ==
    \A j \in JobIds :
      IsPrefix(st[j].log, <<"extract", "choose", "encode", "tag", "cleanup">>)

\* C5 amended: the steps a job has run are a prefix of choose output path,
\* extract, encode, tag, cleanup, one step at a time, and the output path is
\* set exactly once the first of them has run.
C5_StepsInCodeOrder ==
    \A j \in JobIds :
      /\ IsPrefix(st[j].log, <<"choose", "extract", "encode", "tag", "cleanup">>)
      /\ (st[j].out # None) <=> (st[j].log # <<>>)
      /\ st[j].failed = "no" => st[j].pc = Len(st[j].log)

\* C5 witness: a job has run all five steps
C5_Witness ==
    \E j \in JobIds :
      CleanedUp(j) /\ st[j].log = <<"choose", "extract", "encode", "tag", "cleanup">>

\* C6: the path _get_output_fn returned is base, k times "_encoded_", the
\* encoder extension, for the least k >= 0 at which nothing exists; it does
\* not exist when returned, and differs from every path returned before and
\* created since.
C6_FreshLeastSuffix ==
    (phase = "fn" /\ st[1].out # None) =>
      LET p == st[1].out[1]
          cand(k) == sTrack \o Rep(sEncoded, k) \o
                       (IF enc = "ogg" THEN <<".","o","g","g">> ELSE <<".","m","p","3">>)
      IN  /\ ~Exists(p, fs)
          /\ \E k \in 0..Cardinality(fs) :
               /\ p = cand(k)
               /\ \A i \in 0..(k - 1) : Exists(cand(i), fs)
          /\ \A i \in 1..Len(st[1].log) : st[1].log[i] # p

\* C6 witness: a second call, after the path of the first one was created,
\* returns a suffixed path
C6_Witness ==
    /\ phase = "fn" /\ st[1].out # None /\ st[1].log # <<>>
    /\ Len(st[1].out[1]) > Len(st[1].log[1])
    /\ st[1].log[1] \in fs

\* a PERFORMER or TITLE line with fewer than two double quotes
QuoteCount(line) == Cardinality({i \in 1..Len(line) : line[i] = "\""})
Malformed(lines) ==
    \E i \in 1..Len(lines) :
      /\ StartsWith(Upper(Strip(lines[i])), kPERFORMER)
           \/ StartsWith(Upper(Strip(lines[i])), kTITLE)
      /\ QuoteCount(lines[i]) < 2

\* C7: splitting a file whose cue sheet has a PERFORMER or TITLE line with
\* fewer than two quotes constructs no job for it and goes on with the next
\* file of the list.
C7_MalformedCueSkipsFile ==
    [][(SplitGuard /\ SCue # None /\ Malformed(cues[SCue[1]]))
         => (jobs' = jobs /\ phase' = "prepare" /\ idx' = idx + 1)]_vars

\* C8: when the split tools have run for a file, whatever the number of
\* fragments found, the run goes on to the next file with one job more per
\* fragment found.
C8_FragmentCountMismatch ==
    [][(SplitGuard /\ tools' > tools /\ exc' # "tool")
         => /\ phase' = "prepare" /\ idx' = idx + 1
            /\ Len(jobs') = Len(jobs) + Len(MatchFile(Dirname(files[idx]), fs'))]_vars

\* the five cue names of a base, spelled out
NoCueFor(base, fsys) ==
    /\ ~Exists(base \o <<".","c","u","e">>, fsys)
    /\ ~Exists(base \o <<".","w","a","v",".","c","u","e">>, fsys)
    /\ ~Exists(base \o <<".","f","l","a","c",".","c","u","e">>, fsys)
    /\ ~Exists(base \o <<".","w","v",".","c","u","e">>, fsys)
    /\ ~Exists(base \o <<".","a","p","e",".","c","u","e">>, fsys)

FirstCueFor(base, fsys) ==
    IF Exists(base \o <<".","c","u","e">>, fsys) THEN base \o <<".","c","u","e">>
    ELSE IF Exists(base \o <<".","w","a","v",".","c","u","e">>, fsys)
    THEN base \o <<".","w","a","v",".","c","u","e">>
    ELSE IF Exists(base \o <<".","f","l","a","c",".","c","u","e">>, fsys)
    THEN base \o <<".","f","l","a","c",".","c","u","e">>
    ELSE IF Exists(base \o <<".","w","v",".","c","u","e">>, fsys)
    THEN base \o <<".","w","v",".","c","u","e">>
    ELSE base \o <<".","a","p","e",".","c","u","e">>

\* C9: splitting a file none of whose five cue names exists constructs no job,
\* runs no tool, changes no file and goes on with the next file of the list;
\* otherwise the cue sheet parsed is the first of the five names that exists.
C9_MissingCueSkipped ==
    [][SplitGuard =>
         IF NoCueFor(SBase, fs)
         THEN /\ jobs' = jobs /\ st' = st /\ tools' = tools
              /\ fs' = fs /\ created' = created /\ cuelog' = cuelog
              /\ phase' = "prepare" /\ exc' = "none" /\ idx' = idx + 1
         ELSE cuelog' = Append(cuelog, [file |-> idx, cue |-> FirstCueFor(SBase, fs)])
      ]_vars

\* C9 witness: a run that skipped a file without cue sheet, parsed the
\* flac.cue sheet of another for want of a plain .cue, and executed its jobs
C9_Witness ==
    /\ split /\ phase = "done" /\ jobs # <<>>
    /\ \A j \in JobIds : CleanedUp(j)
    /\ \E i \in 1..Len(files) : NoCueFor(Splitext(files[i])[1], fs)
    /\ \E i \in 1..Len(cuelog) : cuelog[i].cue = trackFlacCue

\* C10: a job has tmp_wav_remove False exactly when it is built directly from
\* a .wav input, and once such a job is CleanedUp its .wav source still exists.
C10_SourceSurvives ==
    /\ \A j \in JobIds :
         (~jobs[j].tmp_wav_remove) <=>
            (~split /\ Lower(Splitext(jobs[j].filename)[2]) = <<".","w","a","v">>)
    /\ \A j \in JobIds :
         (~jobs[j].tmp_wav_remove /\ CleanedUp(j)) => jobs[j].filename \in fs

\* C10, the steps taken alone: the cleanup of a job with tmp_wav_remove False
\* changes no file, and neither does the cleanup of the whole-file WavType
\* object of _split_file, so the .wav source that existed before the step
\* exists after it.
C10_PassThroughKeepsSource ==
    [][ /\ \A j \in 1..Len(jobs') :
             (~jobs'[j].tmp_wav_remove) <=>
                (~split /\ Lower(Splitext(jobs'[j].filename)[2]) = <<".","w","a","v">>)
        /\ \A j \in JobIds :
             (~jobs[j].tmp_wav_remove /\ st[j].pc = 4 /\ st'[j].pc = 5) =>
                (fs' = fs /\ (jobs[j].filename \in fs => jobs[j].filename \in fs'))
        /\ (SplitGuard /\ Lower(Splitext(files[idx])[2]) = <<".","w","a","v">>
              /\ files[idx] \in fs) => files[idx] \in fs'
      ]_vars

\* C10 witness: a pass-through job is CleanedUp and its .wav source is still
\* there
C10_Witness ==
    /\ ~split
    /\ \E j \in JobIds :
         /\ ~jobs[j].tmp_wav_remove /\ CleanedUp(j) /\ jobs[j].filename \in fs
         /\ jobs[j].filename \notin created

\* C11: a run without --split over one convertible file that is not a .wav,
\* no tool failing: when the run is over the filesystem is the one it found
\* plus the output, a path that was free; the intermediate <base>.wav is not
\* there, the source is, and nothing else was written or deleted.
C11_SingleFileFrame ==
    (/\ ~split /\ Len(files) = 1 /\ Len(jobs) = 1 /\ jobs[1].klass # "WavType"
     /\ phase = "done" /\ fails = 0)
      => /\ st[1].out[1] \notin fs0
         /\ fs = fs0 \cup {st[1].out[1]}
         /\ jobs[1].wav \notin fs
         /\ files[1] \in fs
         /\ created \cap fs0 = {}

\* a pattern of the bare form *.ext: a star, a dot, letters and digits
BarePattern(p) ==
    /\ Len(p) >= 3 /\ p[1] = "*" /\ p[2] = "."
    /\ \A i \in 3..Len(p) : IndexIn(p[i], Lowers \o Uppers \o Digits) > 0

\* C12: with --recursive the program exits with status 1, before any walk,
\* job or tool, whenever the files argument is not exactly one pattern of the
\* bare form *.ext, and never when it is.
C12_UsageErrorIffNotBare ==
    [][phase = "args" =>
         /\ (phase' = "usage") <=> ~(Len(files) = 1 /\ BarePattern(files[1]))
         /\ phase' = "usage" =>
              (exc' = "exit1" /\ files' = files /\ jobs' = <<>> /\ tools' = 0)
      ]_vars

\* str.endswith
EndsWith(name, suf) ==
    Len(suf) <= Len(name) /\ SubSeq(name, Len(name) - Len(suf) + 1, Len(name)) = suf

\* C17: for an accepted pattern *.ext the list returned holds exactly the
\* files of the tree, at any depth, whose name ends with ".ext", each once.
C17_ExactlyTheSuffixMatches ==
    [][(phase = "args" /\ Len(files) = 1 /\ BarePattern(files[1])) =>
         /\ phase' = "walked"
         /\ Range(files') =
              {Join(WalkRoot(p), Basename(p)) :
                 p \in {q \in fs : EndsWith(Basename(q), Tail(files[1]))}}
         /\ \A i \in DOMAIN files' : \A k \in DOMAIN files' :
              files'[i] = files'[k] => i = k
      ]_vars

\* a job is started once encode() has run its first statement
Started(s) == s.pc > 0

\* C13: once the interrupt is delivered no job that has not started is
\* started, and every job that had started is left to reach its own terminal
\* state, CleanedUp or Failed: none is cut off when the run ends.
C13_InterruptLetsJobsFinish ==
    [][/\ exc = "interrupt" =>
            \A j \in JobIds : ~Started(st[j]) => ~Started(st'[j])
       /\ (exc' = "interrupt" /\ phase' = "crashed") =>
            \A j \in JobIds : Started(st'[j]) => Terminal(st'[j])
      ]_vars

\* C20: the bounded wait does not end the run while a job is pending or in
\* flight: without tool failure and without interrupt every job is CleanedUp
\* when the run is over, and _encode returns only after every job is terminal.
C20_WaitOutlastsJobs ==
    /\ exc = "timeout" => \A j \in JobIds : Terminal(st[j])
    /\ phase = "done" => \A j \in JobIds : CleanedUp(j)
    /\ (phase = "crashed" /\ exc = "timeout" /\ \A j \in JobIds : ~Failed(j))
         => \A j \in JobIds : CleanedUp(j)

\* a cue line by its directive, the first word of the stripped line
IsTrackLine(line) == StartsWith(Upper(Strip(line)), kTRACK)
IsTitleLine(line) == StartsWith(Upper(Strip(line)), kTITLE)
IsPerformerLine(line) == StartsWith(Upper(Strip(line)), kPERFORMER)

\* the lines before the first TRACK directive, and those of the k-th track
TrackLineIdx(text) == {i \in 1..Len(text) : IsTrackLine(text[i])}
TracksBefore(text, i) == Cardinality({k \in TrackLineIdx(text) : k <= i})

\* the quoted value of the last line of a kind among the lines of block k
\* (0: the album level), or None
LastValue(text, k, Kind(_)) ==
    LET hits == {i \in 1..Len(text) : Kind(text[i]) /\ TracksBefore(text, i) = k}
    IN  IF hits = {} THEN None
        ELSE Some(SplitQuote1(text[CHOOSE i \in hits : \A h \in hits : h <= i]))

\* C14: the parser yields one track per TRACK directive line, in order; the
\* PERFORMER/TITLE lines before the first of them set album-artist and album,
\* those after it, whatever their quoted value, set performer and title of
\* the track opened last and neither open a track nor touch the album fields.
C14_OneTrackPerDirective ==
    phase = "parsed" =>
        LET text == cues[trackCue]
            cue == cuelog[1]
        IN  /\ Len(cue.tracks) = Cardinality(TrackLineIdx(text))
            /\ cue.album = LastValue(text, 0, IsTitleLine)
            /\ cue.album_artist = LastValue(text, 0, IsPerformerLine)
            /\ \A k \in 1..Len(cue.tracks) :
                 /\ cue.tracks[k].title = LastValue(text, k, IsTitleLine)
                 /\ cue.tracks[k].performer = LastValue(text, k, IsPerformerLine)

\* C15: a split step that ran its tools and returned did not add the
\* whole-file intermediate <base>.wav to the job list, and has deleted it
\* if and only if the source is not itself a .wav file.
C15_WholeFileIntermediate ==
    [][(SplitGuard /\ tools' > tools /\ idx' = idx + 1) =>
         /\ \A j \in (Len(jobs) + 1)..Len(jobs') : jobs'[j].filename # SWav
         /\ (SWav \notin fs') <=> (Lower(Splitext(files[idx])[2]) # sWavExt)
      ]_vars

\* C16: the jobs a split step constructs are the fragments <base>_<n>.wav
\* of its source, in order, the i-th with the album and album-artist of the
\* source's cue sheet and the title and performer of its i-th track; no file
\* is the source of two jobs of the run.
C16_OneJobPerFragment ==
    [][(SplitGuard /\ tools' > tools /\ idx' = idx + 1) =>
         LET cue == ParseCue(cues[SCue[1]])
             new(i) == jobs'[Len(jobs) + i]
         IN  /\ \E n \in 1..MaxFrag :
                  /\ Len(jobs') = Len(jobs) + n
                  /\ n <= Len(cue.tracks)
                  /\ \A i \in 1..n :
                       /\ new(i).filename = FragName(SBase, i)
                       /\ new(i).album = cue.album
                       /\ new(i).album_artist = cue.album_artist
                       /\ new(i).title = cue.tracks[i].title
                       /\ new(i).performer = cue.tracks[i].performer
             /\ \A a \in 1..Len(jobs') : \A b \in 1..Len(jobs') :
                  jobs'[a].filename = jobs'[b].filename => a = b
      ]_vars

\* C18: every file the run deletes is one the run created: a file that was
\* there when the run started is there ever after.
C18_OnlyOwnFilesDeleted == fs0 \subseteq fs

\* C19: no two jobs of the list have the same intermediate path, so the
\* intermediate a job has extracted and not yet encoded is not deleted by a
\* step of another job.
C19_IntermediatesDistinct ==
    [][/\ \A a \in 1..Len(jobs') : \A b \in 1..Len(jobs') :
            a # b => jobs'[a].wav # jobs'[b].wav
       /\ \A b \in JobIds :
            (st[b].pc = 2 /\ st[b].failed = "no" /\ st'[b] = st[b]
               /\ jobs[b].wav \in fs) => jobs[b].wav \in fs'
      ]_vars

====
